---- MODULE Spec2Model ----
(***************************************************************************)
(* Session / transport / credential lifecycle of the Salesforce MCP        *)
(* server (src/src/index.ts).  One POST /mcp handler per request; every    *)
(* `await` of the handler is a suspension point at which other requests,   *)
(* transport close signals and downstream revocations may run.             *)
(***************************************************************************)
EXTENDS Integers, Sequences, FiniteSets, TLC

\* ---------------------------------------------------------------- bounds
MaxInFlight == 2     \* POST requests being handled at the same time
MaxTransports == 2   \* transports constructed in one run

\* A request occupies a handler slot from its arrival to its response; an
\* arriving request takes the lowest free slot.
Requests == 1..MaxInFlight
\* Transports are numbered in the order of their construction.
Transports == 1..MaxTransports
\* Ids randomUUID() can return: the id a transport draws is named after it.
SessionIds == Transports

\* -------------------------------------------------------- program values
NoTransport == 0     \* streamableTransports[k] === undefined
Inherited == -1      \* a truthy value found on Object.prototype, not a transport
NoSession == 0       \* header mcp-session-id absent / transport.sessionId undefined
Forged == -1         \* a client-chosen id that randomUUID() never returns
ProtoKey == -2       \* a client-chosen id naming an Object.prototype member

\* Every key a client can put in mcp-session-id or the server can generate.
Keys == SessionIds \cup {Forged, ProtoKey}

\* A header value is undefined or a string; a string is a sequence of chunks.
Undefined == [present |-> FALSE, chunks |-> << >>]
Str(s) == [present |-> TRUE, chunks |-> s]
EmptyString == Str(<< >>)
BearerA == Str(<<"Bearer ", "a">>)
RawB == Str(<<"b">>)
Credentials == {BearerA, RawB}
AuthHeaders == Credentials \cup {Undefined, EmptyString}

Frames == {"initialize", "tools/call"}

\* JavaScript truthiness of a header value: undefined and "" are falsy.
Truthy(h) == h.present /\ h.chunks # << >>

\* String.prototype.replace("Bearer ", ""): drops the first occurrence only.
RECURSIVE DropFirst(_, _)
DropFirst(s, c) ==
    IF s = << >> THEN << >>
    ELSE IF Head(s) = c THEN Tail(s)
    ELSE <<Head(s)>> \o DropFirst(Tail(s), c)

replaceBearer(h) == Str(DropFirst(h.chunks, "Bearer "))

\* Lines 174-180: the CORS headers the middleware sets on every response; a
\* header value that is a comma-separated list is the sequence of its members.
AccessControlAllowOrigin == "*"
AccessControlAllowMethods == <<"GET", "POST", "DELETE", "OPTIONS">>

\* Mutant: the preflight does not allow the two headers a client must send.
AccessControlAllowHeadersNarrow == <<"Content-Type">>

AccessControlAllowHeaders == <<"Content-Type", "Authorization", "mcp-session-id">>
AccessControlExposeHeaders == <<"mcp-session-id">>
CorsHeaders ==
    [allowOrigin |-> AccessControlAllowOrigin,
     allowMethods |-> AccessControlAllowMethods,
     allowHeaders |-> AccessControlAllowHeaders,
     exposeHeaders |-> AccessControlExposeHeaders]
NoHeaders ==
    [allowOrigin |-> "", allowMethods |-> << >>, allowHeaders |-> << >>,
     exposeHeaders |-> << >>]

VARIABLES
    streamableTransports,   \* Keys -> transport or NoTransport (own properties)
    sessionTokens,          \* Keys -> header value or Undefined
    currentRequestToken,    \* header value or Undefined
    constructed,            \* number of transports constructed so far
    tSessionId,             \* transport.sessionId
    req,                    \* per request: handler position and locals
    arrivals,               \* the requests in flight, in order of arrival
    last                    \* the step that produced this state

vars == <<streamableTransports, sessionTokens, currentRequestToken, constructed,
          tSessionId, req, arrivals, last>>

\* ------------------------------------------------------ pure code pieces

\* Mutant: the check written as `authHeader === undefined`.
HeaderMissingOnlyUndefined(authHeader) == ~authHeader.present

\* validateRequest, line 57: `if (!authHeader)`.
HeaderMissing(authHeader) == ~Truthy(authHeader)

\* Mutant: the result of the identity call is ignored (a header is trusted
\* as soon as it is there).
validateTokenTrusting(token, identityOk) == token.present

\* validateToken: true iff conn.identity() returned (`identityOk`); every
\* throw (a rejected or expired token, a network fault, token.replace on
\* undefined) is caught and gives false.
validateToken(token, identityOk) == token.present /\ identityOk

\* Mutant: the catch block answers every error with 500.
StatusOfAlways500(code) == 500

\* An Error thrown without a `code` property.
NoCode == 0

\* The catch block of the POST handler: error.code === 401 ? 401 : 500.
StatusOf(code) == IF code = 401 THEN 401 ELSE 500

\* Mutant: one transport serves every session.
LookupFirst(table, k) == IF table[k] # NoTransport THEN 1 ELSE NoTransport

\* streamableTransports[sessionId]: an own property, else what the prototype
\* chain of a plain object gives for that key.
Lookup(table, k) ==
    IF table[k] # NoTransport THEN table[k]
    ELSE IF k = ProtoKey THEN Inherited
    ELSE NoTransport

\* Mutant: every request starts a new session.
ExistingSessionNever(sessionId, table) == FALSE

\* Line 207: `sessionId && streamableTransports[sessionId]`.
ExistingSession(sessionId, table) ==
    sessionId # NoSession /\ Lookup(table, sessionId) # NoTransport

\* Mutant: a rebind writes the credential to every session that has one.
RebindEverySession(tokens, sessionId, authHeader) ==
    [k \in Keys |->
        IF k = sessionId \/ Truthy(tokens[k]) THEN authHeader ELSE tokens[k]]

\* Line 213: sessionTokens[sessionId] = authHeader.
Rebind(tokens, sessionId, authHeader) == [tokens EXCEPT ![sessionId] = authHeader]

\* Mutant: the generator repeats itself.
sessionIdGeneratorRepeating(t) == 1

\* Line 216: randomUUID(), drawn by transport t, returns an id nobody has
\* seen before.
sessionIdGenerator(t) == t

\* Mutant: the session-established callback moves every registered session
\* to the new transport.
RegisterTransportMigrating(table, newSessionId, t) ==
    [k \in Keys |->
        IF k = newSessionId \/ table[k] # NoTransport THEN t ELSE table[k]]

\* Mutant: the session-established callback stores no credential.
RegisterTokenNone(tokens, newSessionId, authHeader) == tokens

\* Lines 218 and 220: the session-established callback of transport t, whose
\* closure holds the authHeader of the request that constructed t.
RegisterTransport(table, newSessionId, t) == [table EXCEPT ![newSessionId] = t]
RegisterToken(tokens, newSessionId, authHeader) ==
    [tokens EXCEPT ![newSessionId] = authHeader]

\* Mutant: a transport without session id clears the table on close.
oncloseTransportsReset(table, sid) ==
    [k \in Keys |-> IF sid = NoSession \/ k = sid THEN NoTransport ELSE table[k]]

\* Mutant: onclose keeps the credential of the session.
oncloseTokensKeeping(tokens, sid) == tokens

\* Lines 228-230: transport.onclose.
oncloseTransports(table, sid) ==
    IF sid # NoSession THEN [table EXCEPT ![sid] = NoTransport] ELSE table
oncloseTokens(tokens, sid) ==
    IF sid # NoSession THEN [tokens EXCEPT ![sid] = Undefined] ELSE tokens

\* Mutant: the catch block drops the session the failed request named.
catchTokensDropping(tokens, sessionId) ==
    IF sessionId \in Keys THEN [tokens EXCEPT ![sessionId] = Undefined] ELSE tokens

\* Lines 238-251: the catch block writes a response and touches no map.
catchTransports(table, sessionId) == table
catchTokens(tokens, sessionId) == tokens

\* Lines 119-125: the credential the get-current-user tool forwards.
ToolCredential(current) == replaceBearer(current)

\* Mutant: the tool's catch block reports success.
ErrorPayloadSwallowed == [success |-> TRUE, user |-> Undefined]

\* Lines 129-160: the tool's payload.
SuccessPayload(token) == [success |-> TRUE, user |-> token]
ErrorPayload == [success |-> FALSE, user |-> Undefined]
NoPayload == [success |-> FALSE, user |-> Str(<<"none">>)]

\* ------------------------------------------------------------ the state

IdleReq ==
    [pc |-> "idle", sessionId |-> NoSession, authHeader |-> Undefined,
     downstream |-> "none", frame |-> "initialize", transport |-> NoTransport,
     branch |-> "none",
     status |-> 0, responses |-> 0, usedToken |-> Undefined,
     toolIdentity |-> "none", payload |-> NoPayload,
     cors |-> NoHeaders, body |-> "none"]

Init ==
    /\ streamableTransports = [k \in Keys |-> NoTransport]
    /\ sessionTokens = [k \in Keys |-> Undefined]
    /\ currentRequestToken = Undefined
    /\ constructed = 0
    /\ tSessionId = [t \in Transports |-> NoSession]
    /\ req = [r \in Requests |-> IdleReq]
    /\ arrivals = << >>
    /\ last = [op |-> "init", who |-> 0, rec |-> IdleReq]

\* The ids randomUUID() has returned so far.
generated == {tSessionId[t] : t \in Transports} \ {NoSession}

RECURSIVE Without(_, _)
Without(seq, x) ==
    IF seq = << >> THEN << >>
    ELSE IF Head(seq) = x THEN Without(Tail(seq), x)
    ELSE <<Head(seq)>> \o Without(Tail(seq), x)

\* Request r moves to `rec`.  A request is ephemeral: once its response is
\* written its locals are gone and its slot is free; `last` then keeps the
\* locals it ended with.
Becomes(r, op, rec) ==
    /\ req' = [req EXCEPT ![r] = IF rec.pc = "done" THEN IdleReq ELSE rec]
    /\ arrivals' = IF rec.pc = "done" THEN Without(arrivals, r)
                   ELSE IF req[r].pc = "idle" THEN Append(arrivals, r)
                   ELSE arrivals
    /\ last' = [op |-> op, who |-> r,
                rec |-> IF rec.pc = "done" THEN rec ELSE IdleReq]

\* The transport writes the response of request r (spec section 6: 200).
TransportStatus == 200
Respond(rec, payload) ==
    [rec EXCEPT !.pc = "done", !.status = TransportStatus,
                !.responses = @ + 1, !.payload = payload, !.body = "stream"]

\* The catch block for request r with error code `code`, entered with the
\* credential map `tokens`.
CatchWith(r, op, rec, code, tokens) ==
    /\ Becomes(r, op, [rec EXCEPT !.pc = "done", !.status = StatusOf(code),
                                  !.responses = @ + 1, !.body = "json"])
    /\ streamableTransports' = catchTransports(streamableTransports, rec.sessionId)
    /\ sessionTokens' = catchTokens(tokens, rec.sessionId)

Catch(r, op, rec, code) == CatchWith(r, op, rec, code, sessionTokens)

\* What a client can put in mcp-session-id: nothing, an id the server has
\* handed out, or an id of its own making.
ClientSessionIds == {NoSession, Forged, ProtoKey} \cup generated

\* ---------------------------------------------------------- the handler

\* Lines 173-185 for an OPTIONS request: the middleware sets the CORS
\* headers and ends the response; next() is not called, so no route runs and
\* no header of the request is read.
Options ==
    /\ last' = [op |-> "options", who |-> 0,
                rec |-> [IdleReq EXCEPT !.pc = "done", !.cors = CorsHeaders,
                                        !.status = 200, !.responses = 1,
                                        !.body = "empty"]]
    /\ UNCHANGED <<streamableTransports, sessionTokens, currentRequestToken,
                   constructed, tSessionId, req, arrivals>>

\* Lines 173-200 for a POST request, up to the first suspension: the
\* middleware sets the CORS headers and calls next(); the handler reads the
\* headers and calls validateRequest, which throws at once when the header is
\* missing and otherwise starts the downstream identity call.
Receive(r, sid, auth) ==
    /\ req[r].pc = "idle"
    /\ \A o \in Requests : o < r => req[o].pc # "idle"
    /\ LET rec == [req[r] EXCEPT !.sessionId = sid, !.authHeader = auth,
                                 !.cors = CorsHeaders]
       IN IF HeaderMissing(auth)
          THEN Catch(r, "receive", rec, 401)
          ELSE /\ Becomes(r, "receive", [rec EXCEPT !.pc = "validating"])
               /\ UNCHANGED <<streamableTransports, sessionTokens>>
    /\ UNCHANGED <<currentRequestToken, constructed, tSessionId>>

\* Lines 67-75 and 200-237: the identity call of validateToken returns or
\* throws; on success the handler runs on to its next await.  In the reuse
\* branch that is line 237, which hands req.body, a protocol frame, to the
\* transport; the handler reads the body nowhere else.
ValidateReturn(r, identityOk, frame) ==
    /\ req[r].pc = "validating"
    /\ LET rec == [req[r] EXCEPT !.downstream = IF identityOk THEN "ok" ELSE "failed"]
           sid == rec.sessionId
           auth == rec.authHeader
       IN IF ~validateToken(auth, identityOk)
          THEN /\ Catch(r, "validated", rec, 401)
               /\ UNCHANGED <<currentRequestToken, constructed>>
          ELSE /\ currentRequestToken' = auth
               /\ IF ExistingSession(sid, streamableTransports)
                  THEN LET transport == Lookup(streamableTransports, sid)
                           bound == [rec EXCEPT !.transport = transport,
                                                !.branch = "reuse"]
                       IN /\ UNCHANGED constructed
                          /\ IF transport \in Transports
                             THEN /\ sessionTokens' = Rebind(sessionTokens, sid, auth)
                                  /\ Becomes(r, "validated",
                                             [bound EXCEPT !.pc = "handling",
                                                           !.frame = frame])
                                  /\ UNCHANGED streamableTransports
                             ELSE \* line 237 throws a TypeError: the value
                                  \* found is no transport
                                  CatchWith(r, "validated", bound, NoCode,
                                            Rebind(sessionTokens, sid, auth))
                  ELSE /\ constructed < MaxTransports
                       /\ constructed' = constructed + 1
                       /\ Becomes(r, "validated",
                                  [rec EXCEPT !.transport = constructed + 1,
                                              !.branch = "create",
                                              !.pc = "connecting"])
                       /\ UNCHANGED <<streamableTransports, sessionTokens>>
    /\ UNCHANGED <<tSessionId>>

\* Line 235: server.connect(transport) returns; line 237 hands req.body, a
\* protocol frame, to the transport.
ConnectReturn(r, frame) ==
    /\ req[r].pc = "connecting"
    /\ Becomes(r, "connected", [req[r] EXCEPT !.pc = "handling", !.frame = frame])
    /\ UNCHANGED <<streamableTransports, sessionTokens, currentRequestToken,
                   constructed, tSessionId>>

\* Line 235: server.connect(transport) throws.
ConnectThrow(r) ==
    /\ req[r].pc = "connecting"
    /\ Catch(r, "connectThrew", req[r], NoCode)
    /\ UNCHANGED <<currentRequestToken, constructed, tSessionId>>

\* Line 237 with an initialize frame on a transport that has no session yet:
\* the transport takes an id from sessionIdGenerator and calls
\* onsessioninitialized (lines 217-222) before it answers.  The closure of the
\* callback holds the authHeader of the request that constructed the
\* transport, which is the request being handled: a transport without a
\* session is in no table, so only its constructor holds it.
HandleInitialize(r) ==
    /\ req[r].pc = "handling"
    /\ req[r].frame = "initialize"
    /\ tSessionId[req[r].transport] = NoSession
    /\ LET t == req[r].transport
           newSessionId == sessionIdGenerator(t)
       IN /\ tSessionId' = [tSessionId EXCEPT ![t] = newSessionId]
          /\ streamableTransports' =
                RegisterTransport(streamableTransports, newSessionId, t)
          /\ sessionTokens' =
                RegisterToken(sessionTokens, newSessionId, req[r].authHeader)
    /\ Becomes(r, "initialized", Respond(req[r], NoPayload))
    /\ UNCHANGED <<currentRequestToken, constructed>>

\* Line 237 with a tools/call frame on a transport that has a session: the
\* server's tools/call handler starts (lines 115-127) and reads
\* currentRequestToken, then awaits the downstream identity call.
ToolInvoke(r) ==
    /\ req[r].pc = "handling"
    /\ req[r].frame = "tools/call"
    /\ tSessionId[req[r].transport] # NoSession
    /\ IF ~Truthy(currentRequestToken)
       THEN Becomes(r, "toolInvoked", Respond(req[r], ErrorPayload))
       ELSE Becomes(r, "toolInvoked",
                    [req[r] EXCEPT !.pc = "tool",
                                   !.usedToken = ToolCredential(currentRequestToken)])
    /\ UNCHANGED <<streamableTransports, sessionTokens, currentRequestToken,
                   constructed, tSessionId>>

\* Lines 127-160: conn.identity() of the tool returns or throws.
ToolReturn(r, identityOk) ==
    /\ req[r].pc = "tool"
    /\ Becomes(r, "toolReturned",
               Respond([req[r] EXCEPT !.toolIdentity =
                                         IF identityOk THEN "ok" ELSE "failed"],
                       IF identityOk
                       THEN SuccessPayload(req[r].usedToken)
                       ELSE ErrorPayload))
    /\ UNCHANGED <<streamableTransports, sessionTokens, currentRequestToken,
                   constructed, tSessionId>>

\* Line 237 with a frame the transport does not accept in its state (a
\* tools/call before initialize, a second initialize): the transport answers
\* by itself and no handler of the server runs.
HandleRefuse(r) ==
    /\ req[r].pc = "handling"
    /\ (req[r].frame = "initialize") = (tSessionId[req[r].transport] # NoSession)
    /\ Becomes(r, "refused", Respond(req[r], NoPayload))
    /\ UNCHANGED <<streamableTransports, sessionTokens, currentRequestToken,
                   constructed, tSessionId>>

\* Line 237: transport.handleRequest throws.
HandleThrow(r) ==
    /\ req[r].pc = "handling"
    /\ Catch(r, "handleThrew", req[r], NoCode)
    /\ UNCHANGED <<currentRequestToken, constructed, tSessionId>>

\* Lines 227-233: transport t signals close (any number of times).
Close(t) ==
    /\ t <= constructed
    /\ streamableTransports' = oncloseTransports(streamableTransports, tSessionId[t])
    /\ sessionTokens' = oncloseTokens(sessionTokens, tSessionId[t])
    /\ last' = [op |-> "close", who |-> t, rec |-> IdleReq]
    /\ UNCHANGED <<currentRequestToken, constructed, tSessionId, req,
                   arrivals>>

Step(r) ==
    \/ \E sid \in ClientSessionIds, auth \in AuthHeaders : Receive(r, sid, auth)
    \/ \E identityOk \in BOOLEAN, frame \in Frames :
          ValidateReturn(r, identityOk, frame)
    \/ \E frame \in Frames : ConnectReturn(r, frame)
    \/ ConnectThrow(r)
    \/ HandleInitialize(r)
    \/ ToolInvoke(r)
    \/ \E identityOk \in BOOLEAN : ToolReturn(r, identityOk)
    \/ HandleRefuse(r)
    \/ HandleThrow(r)

Next ==
    \/ \E r \in Requests : Step(r)
    \/ \E t \in Transports : Close(t)
    \/ Options

Spec == Init /\ [][Next]_vars

\* Every call the handler awaits (the downstream identity call, server.connect,
\* transport.handleRequest) eventually returns or throws.
Proceed(r) ==
    \/ \E identityOk \in BOOLEAN, frame \in Frames :
          ValidateReturn(r, identityOk, frame)
    \/ \E frame \in Frames : ConnectReturn(r, frame)
    \/ ConnectThrow(r)
    \/ HandleInitialize(r)
    \/ ToolInvoke(r)
    \/ \E identityOk \in BOOLEAN : ToolReturn(r, identityOk)
    \/ HandleRefuse(r)
    \/ HandleThrow(r)

LiveSpec == Spec /\ \A r \in Requests : WF_vars(Proceed(r))

\* ------------------------------------------------------------ vocabulary

\* The locals of request r after the step that r has just taken.
After(r) == IF req'[r].pc = "idle" THEN last'.rec ELSE req'[r]

\* Request r has taken a step named op.
Acted(r, op) == last'.who = r /\ last'.op = op /\ last' # last

\* Transport t has signalled close.
Closed(t) == last'.who = t /\ last'.op = "close" /\ last' # last

\* Request r has taken a step of the POST handler.
ByRequest(r) ==
    /\ last'.who = r
    /\ last'.op \notin {"init", "close", "options"}
    /\ last' # last

InFlight(r) == req[r].pc # "idle"
PastLookup(r) == req[r].pc \in {"connecting", "handling", "tool"}
Registered(k) == streamableTransports[k] # NoTransport

\* ---------------------------------------------------------------- claims

\* C1: a POST request without an Authorization header (undefined or empty)
\* is answered 401 in the step that receives it; that step leaves both
\* session maps as they were, constructs no transport and hands the request
\* to no transport.
C1_NoCredentialRejected ==
    [][\A r \in Requests :
          (Acted(r, "receive") /\ ~Truthy(After(r).authHeader)) =>
             /\ After(r).pc = "done"
             /\ After(r).status = 401
             /\ After(r).responses = 1
             /\ After(r).transport = NoTransport
             /\ UNCHANGED <<streamableTransports, sessionTokens, constructed,
                            tSessionId>>]_vars

\* A request without credential was rejected while it named a live session.
C1_Witness ==
    /\ last.op = "receive"
    /\ last.rec.pc = "done"
    /\ last.rec.status = 401
    /\ ~Truthy(last.rec.authHeader)
    /\ last.rec.sessionId \in SessionIds
    /\ Registered(last.rec.sessionId)
    /\ Truthy(sessionTokens[last.rec.sessionId])

\* C2: when the downstream rejects the credential of a request that names an
\* Active session S, the request is answered 401 and the credential bound to
\* S (and every other table entry) is what it was before.
C2_RevalidationPerRequest ==
    [][\A r \in Requests :
          (req[r].pc = "validating" /\ Acted(r, "validated")
             /\ After(r).downstream = "failed") =>
             /\ After(r).pc = "done"
             /\ After(r).status = 401
             /\ sessionTokens' = sessionTokens
             /\ streamableTransports' = streamableTransports]_vars

\* A request on an Active session, carrying another credential than the one
\* bound, was rejected by the downstream.
C2_Witness ==
    /\ last.op = "validated"
    /\ last.rec.downstream = "failed"
    /\ last.rec.status = 401
    /\ last.rec.sessionId \in SessionIds
    /\ Registered(last.rec.sessionId)
    /\ Truthy(sessionTokens[last.rec.sessionId])
    /\ sessionTokens[last.rec.sessionId] # last.rec.authHeader

\* C3: whenever the get-current-user tool runs for a request whose session
\* is bound to the credential that request presented, and no other request
\* in flight names that session, the access token it forwards to the
\* downstream identity call is that credential's.
C3_ToolUsesOwnCredential ==
    \A r \in Requests :
        (/\ req[r].pc = "tool"
         /\ req[r].sessionId \in SessionIds
         /\ sessionTokens[req[r].sessionId] = req[r].authHeader
         /\ \A o \in Requests \ {r} :
               InFlight(o) => req[o].sessionId # req[r].sessionId)
        => req[r].usedToken = replaceBearer(req[r].authHeader)

\* C4: a valid request naming a registered session S is handed to the
\* transport registered for S; the step constructs no transport, leaves the
\* transport table as it was, and S's transport is registered under S alone.
C4_SessionReuse ==
    [][\A r \in Requests :
          (/\ req[r].pc = "validating"
           /\ Acted(r, "validated")
           /\ After(r).downstream = "ok"
           /\ req[r].sessionId \in SessionIds
           /\ Registered(req[r].sessionId)) =>
             LET S == req[r].sessionId
             IN /\ After(r).pc = "handling"
                /\ After(r).branch = "reuse"
                /\ After(r).transport = streamableTransports[S]
                /\ constructed' = constructed
                /\ streamableTransports' = streamableTransports
                /\ tSessionId'[After(r).transport] = S
                /\ {k \in Keys : streamableTransports'[k] = After(r).transport}
                      = {S}]_vars

\* A request is being handled by the transport of the session it named,
\* while another session is registered too.
C4_Witness ==
    \E r \in Requests :
        /\ req[r].pc = "handling"
        /\ req[r].branch = "reuse"
        /\ req[r].sessionId \in SessionIds
        /\ streamableTransports[req[r].sessionId] = req[r].transport
        /\ \E k \in SessionIds \ {req[r].sessionId} : Registered(k)

\* C5: a transport that becomes Active is registered under an id no transport
\* has had, with the credential of the request that constructed it, and every
\* other entry of both maps stays as it was; two requests that are both on
\* the create path hold different transports.
C5_ConcurrentCreate ==
    [][/\ \A r \in Requests :
             (req[r].pc = "handling" /\ Acted(r, "initialized")) =>
                LET t == req[r].transport
                    id == tSessionId'[t]
                IN /\ id \in SessionIds
                   /\ ~Registered(id)
                   /\ ~Truthy(sessionTokens[id])
                   /\ \A o \in Transports : tSessionId[o] # id
                   /\ streamableTransports'[id] = t
                   /\ sessionTokens'[id] = req[r].authHeader
                   /\ \A k \in Keys \ {id} :
                         /\ streamableTransports'[k] = streamableTransports[k]
                         /\ sessionTokens'[k] = sessionTokens[k]
       /\ \A r1, r2 \in Requests :
             (/\ r1 # r2
              /\ req'[r1].branch = "create"
              /\ req'[r2].branch = "create") =>
                req'[r1].transport # req'[r2].transport]_vars

\* Two requests without session id and with different credentials are on
\* the create path together; the transport of one has just been registered
\* with its credential while the other is still being handled.
C5_Witness ==
    /\ last.op = "initialized"
    /\ last.rec.sessionId = NoSession
    /\ LET id == tSessionId[last.rec.transport]
       IN /\ id \in SessionIds
          /\ streamableTransports[id] = last.rec.transport
          /\ sessionTokens[id] = last.rec.authHeader
    /\ \E r \in Requests :
          /\ req[r].pc = "handling"
          /\ req[r].branch = "create"
          /\ req[r].sessionId = NoSession
          /\ req[r].authHeader # last.rec.authHeader
          /\ req[r].transport # last.rec.transport

\* C6 as claimed: two requests in flight that carry the same mcp-session-id
\* are never both on the create-new-session path.
C6_NeverBothCreate ==
    \A r1, r2 \in Requests :
        (/\ r1 # r2
         /\ PastLookup(r1) /\ PastLookup(r2)
         /\ req[r1].sessionId # NoSession
         /\ req[r1].sessionId = req[r2].sessionId)
        => ~(req[r1].branch = "create" /\ req[r2].branch = "create")

\* C6 as amended: of two requests in flight that carry the same
\* mcp-session-id S, one is on the create path only while S is absent from
\* the table, and when both are on the reuse path they hold the same
\* transport, the one registered for S.
C6_CreateOnlyWhenAbsent ==
    /\ \A r \in Requests :
          (/\ PastLookup(r)
           /\ req[r].sessionId # NoSession
           /\ req[r].branch = "create")
          => ~Registered(req[r].sessionId)
    /\ \A r1, r2 \in Requests :
          (/\ r1 # r2
           /\ PastLookup(r1) /\ PastLookup(r2)
           /\ req[r1].sessionId # NoSession
           /\ req[r1].sessionId = req[r2].sessionId
           /\ req[r1].branch = "reuse" /\ req[r2].branch = "reuse")
          => /\ req[r1].transport = req[r2].transport
             /\ tSessionId[req[r1].transport] = req[r1].sessionId

\* Two requests naming the same registered session are both being handled by
\* its transport.
C6_Witness ==
    \E r1, r2 \in Requests :
        /\ r1 # r2
        /\ req[r1].pc = "handling" /\ req[r2].pc = "handling"
        /\ req[r1].sessionId \in SessionIds
        /\ req[r1].sessionId = req[r2].sessionId
        /\ req[r1].branch = "reuse" /\ req[r2].branch = "reuse"
        /\ Registered(req[r1].sessionId)

\* The position of request r in the order of arrival.
RECURSIVE IndexOf(_, _)
IndexOf(seq, x) ==
    IF seq = << >> THEN 0
    ELSE IF Head(seq) = x THEN 1
    ELSE 1 + IndexOf(Tail(seq), x)

\* C7 as claimed: when two requests on the same Active session S, arrived in
\* the order r1, r2 with different credentials, have both rebound S, the
\* credential bound to S is r2's.
C7_RebindInArrivalOrder ==
    \A r1, r2 \in Requests :
        (/\ r1 # r2
         /\ req[r1].pc \in {"handling", "tool"} /\ req[r1].branch = "reuse"
         /\ req[r2].pc \in {"handling", "tool"} /\ req[r2].branch = "reuse"
         /\ req[r1].sessionId = req[r2].sessionId
         /\ Registered(req[r1].sessionId)
         /\ req[r1].authHeader # req[r2].authHeader
         /\ IndexOf(arrivals, r1) < IndexOf(arrivals, r2))
        => sessionTokens[req[r2].sessionId] = req[r2].authHeader

\* C8: a close signal of a transport that never received a session id, or
\* whose session id is absent from the table, leaves both maps as they were;
\* and in every state, for every constructed transport, closing it twice
\* gives the maps that closing it once gives.
C8_IdempotentClose ==
    [][/\ \A t \in Transports :
             (/\ Closed(t)
              /\ \/ tSessionId[t] = NoSession
                 \/ ~Registered(tSessionId[t])) =>
                UNCHANGED <<streamableTransports, sessionTokens>>
       /\ \A t \in Transports :
             t <= constructed =>
                LET once == oncloseTransports(streamableTransports, tSessionId[t])
                    onceTok == oncloseTokens(sessionTokens, tSessionId[t])
                IN /\ oncloseTransports(once, tSessionId[t]) = once
                   /\ oncloseTokens(onceTok, tSessionId[t]) = onceTok]_vars

\* A transport that never received a session id has signalled close while a
\* session of another transport is registered.
C8_Witness ==
    /\ last.op = "close"
    /\ last.who \in Transports
    /\ tSessionId[last.who] = NoSession
    /\ \E k \in SessionIds : Registered(k) /\ Truthy(sessionTokens[k])

\* C9: an entry leaves streamableTransports or sessionTokens only in a close
\* step of the transport that owns the session id; no step of a request
\* (accepted, rejected with 401, failed with 500) removes one.
C9_OnlyCloseRemoves ==
    [][\A k \in Keys :
          (\/ Registered(k) /\ streamableTransports'[k] = NoTransport
           \/ Truthy(sessionTokens[k]) /\ ~Truthy(sessionTokens'[k])) =>
             \E t \in Transports : Closed(t) /\ tSessionId[t] = k]_vars

\* A request on a registered session has failed with 500 because frame
\* handling threw, and the session's transport and credential are in place.
C9_Witness ==
    /\ last.op = "handleThrew"
    /\ last.rec.status = 500
    /\ last.rec.sessionId \in SessionIds
    /\ streamableTransports[last.rec.sessionId] = last.rec.transport
    /\ Truthy(sessionTokens[last.rec.sessionId])

\* C10: every POST request in flight is eventually answered (no handler is
\* occupied forever: always, eventually, it is free again), with one response,
\* whose status is 401 exactly when the credential was missing or rejected,
\* 500 exactly when a call of the handler threw, and 200 otherwise.
Threw(l) ==
    \/ l.op \in {"connectThrew", "handleThrew"}
    \/ l.op = "validated" /\ l.rec.downstream = "ok" /\ l.rec.branch = "reuse"
Unauthenticated(l) ==
    ~Truthy(l.rec.authHeader) \/ l.rec.downstream = "failed"
C11_DownstreamFailureInline ==
    [][\A r \in Requests :
          (/\ req[r].pc = "tool"
           /\ Acted(r, "toolReturned")
           /\ After(r).toolIdentity = "failed") =>
             /\ req[r].downstream = "ok"
             /\ After(r).pc = "done"
             /\ After(r).status = 200
             /\ After(r).responses = 1
             /\ After(r).payload.success = FALSE
             /\ UNCHANGED <<streamableTransports, sessionTokens>>]_vars

\* The tool's identity call failed for a request on a registered session
\* that is bound to the request's credential.
C11_Witness ==
    /\ last.op = "toolReturned"
    /\ last.rec.toolIdentity = "failed"
    /\ last.rec.status = 200
    /\ last.rec.sessionId \in SessionIds
    /\ streamableTransports[last.rec.sessionId] = last.rec.transport
    /\ sessionTokens[last.rec.sessionId] = last.rec.authHeader

\* C12: in every state, every session id registered with a transport has a
\* non-empty bound credential.
C12_ActiveHasCredential ==
    \A k \in Keys : Registered(k) => Truthy(sessionTokens[k])

\* Two sessions are registered, one of them rebound by a request that is
\* still being handled to another credential than the other session's.
C12_Witness ==
    \E r \in Requests, k \in SessionIds :
        /\ req[r].pc = "handling"
        /\ req[r].branch = "reuse"
        /\ req[r].sessionId \in SessionIds \ {k}
        /\ Registered(req[r].sessionId)
        /\ sessionTokens[req[r].sessionId] = req[r].authHeader
        /\ Registered(k)
        /\ Truthy(sessionTokens[k])
        /\ sessionTokens[k] # req[r].authHeader

\* C13: an OPTIONS request is answered 200 with an empty body and the CORS
\* headers Access-Control-Allow-Origin: *, Allow-Methods GET, POST, DELETE,
\* OPTIONS and Allow-Headers containing Authorization and mcp-session-id; the
\* step starts no validation, occupies no handler and leaves both maps, the
\* current token and the transports as they were.
C13_CorsPreflight ==
    [][(last'.op = "options" /\ last' # last) =>
          /\ last'.rec.status = 200
          /\ last'.rec.responses = 1
          /\ last'.rec.body = "empty"
          /\ last'.rec.cors.allowOrigin = "*"
          /\ last'.rec.cors.allowMethods = <<"GET", "POST", "DELETE", "OPTIONS">>
          /\ \A h \in {"Authorization", "mcp-session-id"} :
                \E i \in DOMAIN last'.rec.cors.allowHeaders :
                   last'.rec.cors.allowHeaders[i] = h
          /\ last'.rec.downstream = "none"
          /\ last'.rec.transport = NoTransport
          /\ UNCHANGED <<streamableTransports, sessionTokens,
                         currentRequestToken, constructed, tSessionId, req,
                         arrivals>>]_vars

\* An OPTIONS request has been answered while a session is registered and a
\* POST request is waiting for its validation.
C13_Witness ==
    /\ last.op = "options"
    /\ last.rec.status = 200
    /\ \E k \in SessionIds : Registered(k) /\ Truthy(sessionTokens[k])
    /\ \E r \in Requests : req[r].pc = "validating"
    /\ Truthy(currentRequestToken)

\* C14: for every POST request, the validation call of that request itself
\* returns valid before the request looks up or writes a session map, has a
\* transport constructed, connected or handed a frame: a request arrives
\* unvalidated and without transport, only its own validation step marks it
\* valid, every request that holds a transport is marked valid, and every
\* step of a request that changes a map, the transports or their session ids
\* is a step of a request marked valid.
C14_ValidateBeforeSession ==
    [][\A r \in Requests :
          /\ Acted(r, "receive") =>
                /\ After(r).downstream = "none"
                /\ After(r).transport = NoTransport
                /\ After(r).pc \in {"validating", "done"}
          /\ (ByRequest(r) /\ After(r).downstream = "ok") =>
                \/ req[r].downstream = "ok"
                \/ req[r].pc = "validating" /\ Acted(r, "validated")
          /\ (ByRequest(r) /\ After(r).transport # NoTransport) =>
                After(r).downstream = "ok"
          /\ req'[r].pc \in {"connecting", "handling", "tool"} =>
                req'[r].downstream = "ok"
          /\ (/\ ByRequest(r)
              /\ <<streamableTransports, sessionTokens, constructed,
                    tSessionId>>' #
                 <<streamableTransports, sessionTokens, constructed,
                   tSessionId>>) =>
                After(r).downstream = "ok"]_vars

\* A validated request is being handled by the transport of a registered
\* session while another request naming that session still waits for its
\* validation and holds no transport.
C14_Witness ==
    \E r, o \in Requests :
        /\ r # o
        /\ req[r].pc = "handling"
        /\ req[r].downstream = "ok"
        /\ req[r].sessionId \in SessionIds
        /\ Registered(req[r].sessionId)
        /\ req[o].pc = "validating"
        /\ req[o].sessionId = req[r].sessionId
        /\ req[o].transport = NoTransport

\* C15: a session id that is registered before and after a step is
\* registered with the same transport: no step (a request's, a
\* session-established callback, a rebind, a close of another transport)
\* replaces the transport of a registered session.
C15_TransportNeverReplaced ==
    [][\A k \in Keys :
          (Registered(k) /\ streamableTransports'[k] # NoTransport) =>
             streamableTransports'[k] = streamableTransports[k]]_vars

\* A second transport has just been registered while a request is being
\* handled by the transport of the first session, which is registered with
\* that same transport.
C15_Witness ==
    /\ last.op = "initialized"
    /\ \E r \in Requests :
          /\ req[r].pc = "handling"
          /\ req[r].branch = "reuse"
          /\ req[r].sessionId \in SessionIds
          /\ streamableTransports[req[r].sessionId] = req[r].transport
          /\ req[r].transport # last.rec.transport
          /\ streamableTransports[tSessionId[last.rec.transport]]
                = last.rec.transport

\* C16: the close signal of a transport with session id S removes the
\* transport entry and the credential entry of S in that step; an id that
\* was handed out and is no longer registered is never registered again; and
\* a valid request that carries such an id is put on the create path with a
\* transport constructed for it, not with the closed one.
C16_CloseRemovesBoth ==
    [][/\ \A t \in Transports :
             (Closed(t) /\ tSessionId[t] # NoSession) =>
                /\ streamableTransports'[tSessionId[t]] = NoTransport
                /\ sessionTokens'[tSessionId[t]] = Undefined
       /\ \A k \in generated : ~Registered(k) => streamableTransports'[k] = NoTransport
       /\ \A r \in Requests :
             (/\ req[r].pc = "validating"
              /\ Acted(r, "validated")
              /\ After(r).downstream = "ok"
              /\ req[r].sessionId \in generated
              /\ ~Registered(req[r].sessionId)) =>
                /\ After(r).branch = "create"
                /\ After(r).transport = constructed + 1
                /\ tSessionId[After(r).transport] = NoSession
                /\ constructed' = constructed + 1]_vars

\* A valid request that carries the id of a closed session is on the create
\* path with a new transport, and neither map has an entry for the id.
C16_Witness ==
    \E r \in Requests :
        /\ req[r].pc \in {"connecting", "handling"}
        /\ req[r].branch = "create"
        /\ req[r].sessionId \in generated
        /\ tSessionId[req[r].transport] # req[r].sessionId
        /\ streamableTransports[req[r].sessionId] = NoTransport
        /\ sessionTokens[req[r].sessionId] = Undefined

\* C17 as claimed: when the session S of a transport is closed, the
\* credential that was bound to S is from then on held by no variable of the
\* server (no entry of sessionTokens, not currentRequestToken) unless it is
\* bound to a session that is still registered or is the credential of a
\* request in flight.
C17_CredentialOnlyWhileLive ==
    [][\A t \in Transports :
          (/\ Closed(t)
           /\ tSessionId[t] # NoSession
           /\ Registered(tSessionId[t])) =>
             LET c == sessionTokens[tSessionId[t]]
             IN (\/ currentRequestToken' = c
                 \/ \E k \in Keys : sessionTokens'[k] = c) =>
                   \/ \E k \in Keys :
                         /\ streamableTransports'[k] # NoTransport
                         /\ sessionTokens'[k] = c
                   \/ \E r \in Requests :
                         /\ req'[r].pc # "idle"
                         /\ req'[r].authHeader = c]_vars

\* C18 as claimed: a valid request whose mcp-session-id is registered with no
\* transport is put on the create path with a transport constructed for it;
\* a transport that becomes Active is registered under the id it has just
\* drawn; and an id the server has not generated is a key of neither map.
C18_UnknownIdStartsSession ==
    [][/\ \A r \in Requests :
             (/\ req[r].pc = "validating"
              /\ Acted(r, "validated")
              /\ After(r).downstream = "ok"
              /\ req[r].sessionId \in Keys
              /\ ~Registered(req[r].sessionId)) =>
                /\ After(r).branch = "create"
                /\ After(r).transport = constructed + 1
                /\ constructed' = constructed + 1
       /\ \A r \in Requests :
             (req[r].pc = "handling" /\ Acted(r, "initialized")) =>
                /\ tSessionId'[req[r].transport] \notin generated
                /\ tSessionId'[req[r].transport] # req[r].sessionId
                /\ streamableTransports'[tSessionId'[req[r].transport]]
                      = req[r].transport
       /\ \A k \in Keys :
             (\A t \in Transports : tSessionId'[t] # k) =>
                /\ streamableTransports'[k] = NoTransport
                /\ sessionTokens'[k] = Undefined]_vars

\* C19: a step taken for a request that names session A (its arrival, its
\* rejection, its rebind, the handling of its frame, its failure), and the
\* close of the transport of A, leave the transport and the credential
\* registered for every other session B as they were.
C19_SessionsIndependent ==
    [][/\ \A r \in Requests :
             ByRequest(r) =>
                \A B \in Keys :
                   (Registered(B) /\ B # After(r).sessionId) =>
                      /\ streamableTransports'[B] = streamableTransports[B]
                      /\ sessionTokens'[B] = sessionTokens[B]
       /\ \A t \in Transports :
             Closed(t) =>
                \A B \in Keys :
                   (Registered(B) /\ B # tSessionId[t]) =>
                      /\ streamableTransports'[B] = streamableTransports[B]
                      /\ sessionTokens'[B] = sessionTokens[B]]_vars

\* The transport of session A has just closed while a request is being
\* handled on session B, which is registered and bound to that request's
\* credential.
C19_Witness ==
    /\ last.op = "close"
    /\ last.who \in Transports
    /\ tSessionId[last.who] \in SessionIds
    /\ ~Registered(tSessionId[last.who])
    /\ \E r \in Requests :
          /\ req[r].pc = "handling"
          /\ req[r].branch = "reuse"
          /\ req[r].sessionId \in SessionIds \ {tSessionId[last.who]}
          /\ streamableTransports[req[r].sessionId] = req[r].transport
          /\ sessionTokens[req[r].sessionId] = req[r].authHeader

\* C20 as claimed: in every state, every key of sessionTokens that holds a
\* credential is registered with a transport in streamableTransports.
C20_CredentialOnlyForActive ==
    \A k \in Keys : Truthy(sessionTokens[k]) => Registered(k)

\* C21: every credential the server stores is the header of a request whose
\* own validation call returned true: a step that puts a credential into an
\* entry of sessionTokens or into currentRequestToken is a step of a request
\* marked valid and stores that request's header, and a step that rejects a
\* request stores nothing.
C21_StoredOnlyIfAccepted ==
    [][/\ \A k \in Keys :
             (sessionTokens'[k] # sessionTokens[k] /\ Truthy(sessionTokens'[k])) =>
                \E r \in Requests :
                   /\ ByRequest(r)
                   /\ After(r).downstream = "ok"
                   /\ After(r).authHeader = sessionTokens'[k]
       /\ currentRequestToken' # currentRequestToken =>
             \E r \in Requests :
                /\ req[r].pc = "validating"
                /\ Acted(r, "validated")
                /\ After(r).downstream = "ok"
                /\ After(r).authHeader = currentRequestToken'
       /\ \A r \in Requests :
             (ByRequest(r) /\ After(r).status = 401) =>
                UNCHANGED <<sessionTokens, currentRequestToken>>]_vars

\* The downstream has just rejected a request on a registered session, and
\* neither the session's entry nor any other entry of sessionTokens nor
\* currentRequestToken, all of them set, holds the rejected credential.
C21_Witness ==
    /\ last.op = "validated"
    /\ last.rec.downstream = "failed"
    /\ last.rec.status = 401
    /\ last.rec.sessionId \in SessionIds
    /\ Registered(last.rec.sessionId)
    /\ Truthy(sessionTokens[last.rec.sessionId])
    /\ Truthy(currentRequestToken)
    /\ currentRequestToken # last.rec.authHeader
    /\ \A k \in Keys : sessionTokens[k] # last.rec.authHeader

====
